---- MODULE Spec2Model ----
(***************************************************************************)
(* DingTalk channel extension: the outbound delivery engine (send.ts), the *)
(* AI Card lifecycle (bot.ts) and the per-turn reply dispatcher            *)
(* (reply-dispatcher.ts), modelled as state machines whose steps are the   *)
(* suspension points (await) of the TypeScript code; the dedup and session *)
(* stores (session.ts) and the stream callback (channel.ts) with the       *)
(* inbound turn handler (bot.ts), whose steps are their calls.             *)
(*                                                                         *)
(* Texts are sequences of tokens:                                          *)
(*   "w" a visible word, "s" a whitespace character,                       *)
(*   "v" / "a" / "f" one [DINGTALK_VIDEO|AUDIO|FILE]{..}[/..] marker,      *)
(*   "j" a complete JSON document.                                         *)
(***************************************************************************)
EXTENDS Integers, Sequences, FiniteSets, TLC

\* ------------------------------------------------------------------ bounds
\* MaxContentLen   tokens in the content of one send
\* MaxHandlers     invocations of deliver / onError in flight at once
\* MaxCreations    card creations one turn may start under Spec
\* RaceCreations   card creations one turn may start under SpecRace
\* textChunkLimit  tokens per chunk (resolveTextChunkLimit)
\* MaxTicks        times the clock moves in one behaviour
\* MaxDeliveries   stream events delivered in one behaviour
MaxContentLen == 2
MaxHandlers == 2
MaxCreations == 1
RaceCreations == 3
textChunkLimit == 1
MaxTicks == 3
MaxDeliveries == 2
\* stop() calls on one account's handle
MaxStops == 2

\* ------------------------------------------------------------ text helpers
Tokens == {"w", "s", "v", "a", "f", "j"}

RECURSIVE TrimStart(_)
TrimStart(t) == IF t # <<>> /\ Head(t) = "s" THEN TrimStart(Tail(t)) ELSE t

RECURSIVE TrimEnd(_)
TrimEnd(t) ==
  IF t # <<>> /\ t[Len(t)] = "s" THEN TrimEnd(SubSeq(t, 1, Len(t) - 1)) ELSE t

\* String.prototype.trim
Trim(t) == TrimEnd(TrimStart(t))

\* content.replace(<marker pattern>, "")
RemoveToken(t, m) == SelectSeq(t, LAMBDA x : x # m)

\* JSON.parse(content) returns normally (it accepts surrounding whitespace)
JsonParses(t) == Trim(t) = <<"j">>

RECURSIVE SeqsUpTo(_, _)
SeqsUpTo(S, n) ==
  IF n = 0 THEN {<<>>}
  ELSE LET shorter == SeqsUpTo(S, n - 1)
       IN  shorter \cup {Append(t, x) : t \in {u \in shorter : Len(u) = n - 1}, x \in S}

Contents == SeqsUpTo(Tokens, MaxContentLen)

\* ---------------------------------------------------------------- media.ts
processVideoMarkers(content) == Trim(RemoveToken(content, "v"))
processAudioMarkers(content) == Trim(RemoveToken(content, "a"))
processFileMarkers(content)  == Trim(RemoveToken(content, "f"))

\* ----------------------------------------------------------------- send.ts
\* ProactiveSendOptions: an option is "undef" when the caller left it out.
OptBool == {"undef", "true", "false"}
MsgTypes == {"undef", "text", "markdown", "link", "actionCard", "image"}

\* destructuring default: `x = true` applies only to undefined
DefaultTrue(o) == o # "false"

NoResult == [ok |-> FALSE, usedAICard |-> FALSE, error |-> "",
             processQueryKey |-> "", cardInstanceId |-> ""]
NoCard == [cardInstanceId |-> "", inputingStarted |-> FALSE]

ErrResult(msg) == [NoResult EXCEPT !.error = msg]

buildMsgPayload(msgType, content) ==
  CASE msgType = "markdown" -> [error |-> "", msgKey |-> "sampleMarkdown"]
    [] msgType \in {"link", "actionCard"} ->
         IF JsonParses(content)
         THEN [error |-> "",
               msgKey |-> IF msgType = "link" THEN "sampleLink" ELSE "sampleActionCard"]
         ELSE [error |-> IF msgType = "link" THEN "Invalid link message format"
                         ELSE "Invalid actionCard message format",
               msgKey |-> ""]
    [] msgType = "image" -> [error |-> "", msgKey |-> "sampleImageMsg"]
    [] OTHER -> [error |-> "", msgKey |-> "sampleText"]

\* A call frame of sendToUser / sendToGroup.  calls is the log of the
\* collaborator calls issued so far, acks the outcomes of those that returned.
Issue(f, pc, call) == [f EXCEPT !.pc = pc, !.calls = Append(@, call)]
Ack(f, o) == [f EXCEPT !.acks = Append(@, o)]
Return(f, r) == [f EXCEPT !.pc = "done", !.result = r]

PlainPost(f) == IF f.op = "user" THEN "POST oToMessages/batchSend"
                ELSE "POST groupMessages/send"

\* sendNormalToUser / sendNormalToGroup up to the first await
sendNormalEnter(f) ==
  LET msgType == IF f.opts.msgType = "undef" THEN "text" ELSE f.opts.msgType
      payload == buildMsgPayload(msgType, f.content)
      g == [f EXCEPT !.normalCalls = @ + 1]
  IN  IF payload.error # "" THEN Return(g, ErrResult(payload.error))
      ELSE Issue(g, "normToken", "getAccessToken")

\* sendToUser / sendToGroup after sendAICardInternal returned cardResult
\* (rich records whether that attempt reported ok)
RichReturned(f, cardResult) ==
  [f EXCEPT !.rich = IF cardResult.ok THEN "ok" ELSE "failed"]

sendAfterCardMutNoFallback(f, cardResult) ==
  Return(RichReturned(f, cardResult), cardResult)

sendAfterCardMutAlwaysFallback(f, cardResult) ==
  sendNormalEnter(RichReturned(f, cardResult))

sendAfterCard(f, cardResult) ==
  IF cardResult.ok \/ ~DefaultTrue(f.opts.fallbackToNormal)
  THEN Return(RichReturned(f, cardResult), cardResult)
  ELSE sendNormalEnter(RichReturned(f, cardResult))

\* sendToUser / sendToGroup up to the first await
sendEnterMutNoCard(f) == sendNormalEnter(f)

sendEnterMutAnyCount(f) ==
  IF DefaultTrue(f.opts.useAICard)
  THEN Issue(f, "oapiToken", "getOapiAccessToken")
  ELSE sendNormalEnter(f)

sendEnter(f) ==
  IF DefaultTrue(f.opts.useAICard) /\ (f.op = "group" \/ Len(f.ids) = 1)
  THEN Issue(f, "oapiToken", "getOapiAccessToken")
  ELSE sendNormalEnter(f)

\* sendAICardInternal after getOapiAccessToken returned (o = "fail": null).
\* processLocalImages rewrites image paths in place and removes no text, so
\* it leaves the tokens as they are.
sendAICardInternal(f, o) ==
  LET g == Ack(f, o)
      processed == IF o = "ok"
                   THEN processFileMarkers(processAudioMarkers(
                          processVideoMarkers(g.content)))
                   ELSE g.content
      h == [g EXCEPT !.processed = processed]
      k == [h EXCEPT !.cardAttempts = @ + 1]
  IN  IF Trim(processed) = <<>>
      THEN sendAfterCard(h, [NoResult EXCEPT !.ok = TRUE])
      ELSE Issue(k, "cardToken", "getAccessToken")

CardFailed(f) == sendAfterCard(f, ErrResult("Failed to create AI Card"))

\* createAICardForTarget: getAccessToken, POST instances, POST deliver
createCardToken(f, o) ==
  IF o = "ok" THEN Issue(Ack(f, o), "cardCreate", "POST card/instances")
  ELSE CardFailed(Ack(f, o))

createCardPost(f, o) ==
  IF o = "ok" THEN Issue(Ack(f, o), "cardDeliver", "POST card/instances/deliver")
  ELSE CardFailed(Ack(f, o))

\* streamAICard up to its first await
streamEnter(f) ==
  IF ~f.card.inputingStarted
  THEN Issue(f, "putInputing", "PUT card/instances INPUTING")
  ELSE Issue(f, "putStream", "PUT card/streaming")

createCardDeliver(f, o) ==
  IF o = "ok"
  THEN streamEnter([Ack(f, o) EXCEPT !.card = [cardInstanceId |-> "card_1",
                                               inputingStarted |-> FALSE]])
  ELSE CardFailed(Ack(f, o))

\* streamAICard: the INPUTING status update returned (errors are swallowed)
streamInputing(f, o) ==
  Issue([Ack(f, o) EXCEPT !.card.inputingStarted = TRUE],
        "putStream", "PUT card/streaming")

\* streamAICard: the content push returned (errors are swallowed);
\* finishAICard goes on to the FINISHED status update
streamPushMutRetries(f, o) ==
  IF o = "fail" /\ Len(SelectSeq(f.calls, LAMBDA c : c = "PUT card/streaming")) < 2
  THEN Issue(Ack(f, o), "putStream", "PUT card/streaming")
  ELSE Issue(Ack(f, o), "putFinished", "PUT card/instances FINISHED")

streamPush(f, o) == Issue(Ack(f, o), "putFinished", "PUT card/instances FINISHED")

\* finishAICard: the FINISHED update returned (errors are swallowed);
\* sendAICardInternal returns the card result
finishAICard(f, o) ==
  sendAfterCard(Ack(f, o), [NoResult EXCEPT !.ok = TRUE, !.usedAICard = TRUE,
                            !.cardInstanceId = f.card.cardInstanceId])

\* sendNormalToUser / sendNormalToGroup: getAccessToken returned
sendNormalToken(f, o) ==
  IF o = "ok" THEN Issue([Ack(f, o) EXCEPT !.postedTo = f.ids], "normPost", PlainPost(f))
  ELSE Return(Ack(f, o), ErrResult("Unknown error"))

\* sendNormalToUser / sendNormalToGroup: the POST returned
\* ("reject": a response without processQueryKey)
sendNormalPostMutNoDefault(f, o) ==
  IF o = "ok" THEN Return(Ack(f, o), [NoResult EXCEPT !.ok = TRUE,
                                      !.processQueryKey = "key_1"])
  ELSE IF o = "reject" THEN Return(Ack(f, o), ErrResult(""))
  ELSE Return(Ack(f, o), ErrResult("Unknown error"))

sendNormalPost(f, o) ==
  IF o = "ok" THEN Return(Ack(f, o), [NoResult EXCEPT !.ok = TRUE,
                                      !.processQueryKey = "key_1"])
  ELSE Return(Ack(f, o), ErrResult("Unknown error"))

Outcomes(pc) == IF pc = "normPost" THEN {"ok", "reject", "fail"} ELSE {"ok", "fail"}

\* the target selector of sendProactive; "undef" is a property left out
NoSelector == [userId |-> "undef", userIds |-> "undef", openConversationId |-> "undef"]

\* api: the public operation the caller invoked
\* postedTo: the userIds / openConversationId in the body of the plain post
NewFrame(op, ids, content, opts) ==
  [pc |-> "entry", op |-> op, ids |-> ids, content |-> content, opts |-> opts,
   api |-> IF op = "user" THEN "sendToUser"
           ELSE IF op = "group" THEN "sendToGroup" ELSE "sendProactive",
   selector |-> NoSelector,
   processed |-> <<>>, card |-> NoCard, calls |-> <<>>, acks |-> <<>>,
   postedTo |-> <<>>,
   rich |-> "none", cardAttempts |-> 0, normalCalls |-> 0, result |-> NoResult]

\* a falsy string property of the selector: left out, or ""
Falsy(x) == x \in {"undef", ""}

\* /^[#*>-]|[*_`#\[\]]/.test(content): of the tokens only the media markers
\* ([DINGTALK_VIDEO]..., [DINGTALK_AUDIO]..., [DINGTALK_FILE]...) carry one of
\* these characters; a word, a blank and a JSON object carry none
LooksMarkdown(content) == \E i \in DOMAIN content : content[i] \in {"v", "a", "f"}

\* sendProactive: options.msgType = "markdown" when the caller gave none and
\* the content looks formatted
proactiveOptions(f) ==
  IF f.opts.msgType = "undef" /\ LooksMarkdown(f.content)
  THEN [f.opts EXCEPT !.msgType = "markdown"]
  ELSE f.opts

\* target.userIds || [target.userId!]
proactiveUserIds(sel) == IF sel.userIds # "undef" THEN sel.userIds ELSE <<sel.userId>>

sendProactiveMutNoGuard(f) ==
  sendEnter([f EXCEPT !.pc = "entry", !.op = "user", !.opts = proactiveOptions(f),
                      !.ids = proactiveUserIds(f.selector)])

\* sendProactive up to the first await of the operation it delegates to
sendProactive(f) ==
  LET sel == f.selector
      g == [f EXCEPT !.opts = proactiveOptions(f)]
  IN  IF ~Falsy(sel.userId) \/ sel.userIds # "undef"
      THEN sendEnter([g EXCEPT !.pc = "entry", !.op = "user",
                               !.ids = proactiveUserIds(sel)])
      ELSE IF ~Falsy(sel.openConversationId)
      THEN sendEnter([g EXCEPT !.pc = "entry", !.op = "group",
                               !.ids = <<sel.openConversationId>>])
      ELSE Return(g, ErrResult("Must specify userId, userIds, or openConversationId"))

\* one step of a frame: the awaited call returns with outcome o
SendStep(f, o) ==
  CASE f.pc = "entry"       -> sendEnter(f)
    [] f.pc = "oapiToken"   -> sendAICardInternal(f, o)
    [] f.pc = "cardToken"   -> createCardToken(f, o)
    [] f.pc = "cardCreate"  -> createCardPost(f, o)
    [] f.pc = "cardDeliver" -> createCardDeliver(f, o)
    [] f.pc = "putInputing" -> streamInputing(f, o)
    [] f.pc = "putStream"   -> streamPush(f, o)
    [] f.pc = "putFinished" -> finishAICard(f, o)
    [] f.pc = "normToken"   -> sendNormalToken(f, o)
    [] f.pc = "normPost"    -> sendNormalPost(f, o)
    [] OTHER -> f

\* a whole sendToUser / sendToGroup call, the awaited calls returning as
\* the script (call site -> outcome) says
RECURSIVE RunSend(_, _)
RunSend(f, script) ==
  IF f.pc = "done" THEN f ELSE RunSend(SendStep(f, script[f.pc]), script)

CallSites == {"entry", "oapiToken", "cardToken", "cardCreate", "cardDeliver",
              "putInputing", "putStream", "putFinished", "normToken", "normPost"}

AllOk == [s \in CallSites |-> "ok"]

\* the remote outcomes the dispatcher's fallback sends are run against
SendScripts ==
  { AllOk,
    [AllOk EXCEPT !["cardCreate"] = "fail"],
    [AllOk EXCEPT !["cardToken"] = "fail", !["normPost"] = "reject"],
    [AllOk EXCEPT !["putStream"] = "fail", !["putFinished"] = "fail"] }

\* ------------------------------------------------------------- session.ts
MESSAGE_DEDUP_TTL == 5 * 60 * 1000

\* `processedMessages.size >= 100`
SweepThreshold == 100

\* Map.prototype.set on a Map held as a function from its keys
MapSet(map, k, v) == [x \in DOMAIN map \cup {k} |-> IF x = k THEN v ELSE map[x]]

\* Map.prototype.delete of every key outside keys
MapKeep(map, keys) == [x \in keys |-> map[x]]

\* message ids are numbered; EmptyId is the empty string, the one falsy id
EmptyId == 0

\* cleanupProcessedMessages, its Date.now() reading t
cleanupProcessedMessagesMutAtTtl(pm, t) ==
  MapKeep(pm, {m \in DOMAIN pm : ~(t - pm[m] >= MESSAGE_DEDUP_TTL)})

cleanupProcessedMessages(pm, t) ==
  MapKeep(pm, {m \in DOMAIN pm : ~(t - pm[m] > MESSAGE_DEDUP_TTL)})

isMessageProcessed(pm, messageId) ==
  IF messageId = EmptyId THEN FALSE ELSE messageId \in DOMAIN pm

\* markMessageProcessed: Date.now() reads t at the insert and t2 >= t in the
\* sweep
markMessageProcessedMutAbove(pm, messageId, t, t2) ==
  IF messageId = EmptyId THEN pm
  ELSE LET inserted == MapSet(pm, messageId, t)
       IN  IF Cardinality(DOMAIN inserted) > SweepThreshold
           THEN cleanupProcessedMessages(inserted, t2)
           ELSE inserted

markMessageProcessedMutNoGuard(pm, messageId, t, t2) ==
  LET inserted == MapSet(pm, messageId, t)
  IN  IF Cardinality(DOMAIN inserted) >= SweepThreshold
      THEN cleanupProcessedMessages(inserted, t2)
      ELSE inserted

markMessageProcessed(pm, messageId, t, t2) ==
  IF messageId = EmptyId THEN pm
  ELSE LET inserted == MapSet(pm, messageId, t)
       IN  IF Cardinality(DOMAIN inserted) >= SweepThreshold
           THEN cleanupProcessedMessages(inserted, t2)
           ELSE inserted

\* `dingtalk-connector:${senderId}` and `dingtalk-connector:${senderId}:${now}`
firstSessionIdMutShared(senderId) == <<"dingtalk-connector", "">>

firstSessionId(senderId) == <<"dingtalk-connector", senderId>>
rotatedSessionId(senderId, t) == <<"dingtalk-connector", senderId, t>>

\* getSessionKey, its Date.now() reading t: the store it leaves and the
\* value it returns
rotateSession(us, senderId, t) ==
  [userSessions |-> MapSet(us, senderId, [lastActivity |-> t,
                                          sessionId |-> rotatedSessionId(senderId, t)]),
   sessionKey |-> rotatedSessionId(senderId, t), isNew |-> TRUE]

getSessionKeyMutAtTimeout(us, senderId, forceNew, sessionTimeout, t) ==
  IF forceNew THEN rotateSession(us, senderId, t)
  ELSE IF senderId \in DOMAIN us
  THEN IF t - us[senderId].lastActivity >= sessionTimeout
       THEN rotateSession(us, senderId, t)
       ELSE [userSessions |-> [us EXCEPT ![senderId].lastActivity = t],
             sessionKey |-> us[senderId].sessionId, isNew |-> FALSE]
  ELSE [userSessions |-> MapSet(us, senderId, [lastActivity |-> t,
                                               sessionId |-> firstSessionId(senderId)]),
        sessionKey |-> firstSessionId(senderId), isNew |-> FALSE]

getSessionKeyMutForgets(us, senderId, forceNew, sessionTimeout, t) ==
  IF forceNew
  THEN [userSessions |-> us, sessionKey |-> rotatedSessionId(senderId, t), isNew |-> TRUE]
  ELSE IF senderId \in DOMAIN us
  THEN IF t - us[senderId].lastActivity > sessionTimeout
       THEN rotateSession(us, senderId, t)
       ELSE [userSessions |-> [us EXCEPT ![senderId].lastActivity = t],
             sessionKey |-> us[senderId].sessionId, isNew |-> FALSE]
  ELSE [userSessions |-> MapSet(us, senderId, [lastActivity |-> t,
                                               sessionId |-> firstSessionId(senderId)]),
        sessionKey |-> firstSessionId(senderId), isNew |-> FALSE]

getSessionKeyMutNeverExpires(us, senderId, forceNew, sessionTimeout, t) ==
  IF forceNew THEN rotateSession(us, senderId, t)
  ELSE IF senderId \in DOMAIN us
  THEN [userSessions |-> [us EXCEPT ![senderId].lastActivity = t],
        sessionKey |-> us[senderId].sessionId, isNew |-> FALSE]
  ELSE [userSessions |-> MapSet(us, senderId, [lastActivity |-> t,
                                               sessionId |-> firstSessionId(senderId)]),
        sessionKey |-> firstSessionId(senderId), isNew |-> FALSE]

getSessionKeyMutRenames(us, senderId, forceNew, sessionTimeout, t) ==
  IF forceNew THEN rotateSession(us, senderId, t)
  ELSE IF senderId \in DOMAIN us
  THEN IF t - us[senderId].lastActivity > sessionTimeout
       THEN rotateSession(us, senderId, t)
       ELSE [userSessions |->
               [us EXCEPT ![senderId] = [lastActivity |-> t,
                                         sessionId |-> firstSessionId(senderId)]],
             sessionKey |-> us[senderId].sessionId, isNew |-> FALSE]
  ELSE [userSessions |-> MapSet(us, senderId, [lastActivity |-> t,
                                               sessionId |-> firstSessionId(senderId)]),
        sessionKey |-> firstSessionId(senderId), isNew |-> FALSE]

getSessionKey(us, senderId, forceNew, sessionTimeout, t) ==
  IF forceNew THEN rotateSession(us, senderId, t)
  ELSE IF senderId \in DOMAIN us
  THEN IF t - us[senderId].lastActivity > sessionTimeout
       THEN rotateSession(us, senderId, t)
       ELSE [userSessions |-> [us EXCEPT ![senderId].lastActivity = t],
             sessionKey |-> us[senderId].sessionId, isNew |-> FALSE]
  ELSE [userSessions |-> MapSet(us, senderId, [lastActivity |-> t,
                                               sessionId |-> firstSessionId(senderId)]),
        sessionKey |-> firstSessionId(senderId), isNew |-> FALSE]

\* ------------------------------------------------- channel.ts and bot.ts
\* An inbound stream event: its headers.messageId and what its data holds.
\*   bad    res.data is not JSON
\*   empty  extractMessageContent finds no text
\*   reset  the text is one of NEW_SESSION_COMMANDS
\*   text   any other text
EventKinds == {"bad", "empty", "reset", "text"}

\* dingtalkConfig.sessionTimeout ?? 1800000
defaultSessionTimeout == 1800000

\* data.senderStaffId || data.senderId of the modelled events
streamSender == "s1"

\* route.sessionKey: the host's resolveAgentRoute names it from the peer
routeSessionKey(senderId) == <<"agent", senderId>>

\* one invocation of the stream callback
\*   acked       socketCallBackResponse was called
\*   handled     handleDingTalkMessage was called
\*   routed      resolveAgentRoute was called
\*   dispatched  createDingTalkReplyDispatcher and dispatchReplyFromConfig
\*               were called, with ctx.SessionKey = sessionKey
\*   logged      error lines written by the catch blocks
\*   earlier     the invocation ended before the initial state
NewDelivery(e) ==
  [id |-> e.id, kind |-> e.kind, pc |-> "entry", acked |-> e.id # EmptyId,
   earlier |-> FALSE,
   handled |-> FALSE, routed |-> FALSE, dispatched |-> FALSE,
   sessionKey |-> <<>>, logged |-> 0]

\* handleDingTalkMessage up to its await of dispatchReplyFromConfig
handleDingTalkMessageMutResetRoutes(us, dl, t) ==
  LET h == [dl EXCEPT !.handled = TRUE]
      dispatching == [h EXCEPT !.pc = "dispatching", !.routed = TRUE,
                               !.dispatched = TRUE,
                               !.sessionKey = routeSessionKey(streamSender)]
  IN  CASE dl.kind = "empty" ->
             [userSessions |-> us, delivery |-> [h EXCEPT !.pc = "returned"]]
        [] dl.kind = "reset" ->
             [userSessions |-> getSessionKey(us, streamSender, TRUE,
                                             defaultSessionTimeout, t).userSessions,
              delivery |-> dispatching]
        [] OTHER -> [userSessions |-> us, delivery |-> dispatching]

handleDingTalkMessageMutEmptyDispatches(us, dl, t) ==
  LET h == [dl EXCEPT !.handled = TRUE]
  IN  CASE dl.kind = "reset" ->
             [userSessions |-> getSessionKey(us, streamSender, TRUE,
                                             defaultSessionTimeout, t).userSessions,
              delivery |-> [h EXCEPT !.pc = "returned"]]
        [] OTHER ->
             [userSessions |-> us,
              delivery |-> [h EXCEPT !.pc = "dispatching", !.routed = TRUE,
                                     !.dispatched = TRUE,
                                     !.sessionKey = routeSessionKey(streamSender)]]

handleDingTalkMessage(us, dl, t) ==
  LET h == [dl EXCEPT !.handled = TRUE]
  IN  CASE dl.kind = "empty" ->
             [userSessions |-> us, delivery |-> [h EXCEPT !.pc = "returned"]]
        [] dl.kind = "reset" ->
             [userSessions |-> getSessionKey(us, streamSender, TRUE,
                                             defaultSessionTimeout, t).userSessions,
              delivery |-> [h EXCEPT !.pc = "returned"]]
        [] OTHER ->
             [userSessions |-> us,
              delivery |-> [h EXCEPT !.pc = "dispatching", !.routed = TRUE,
                                     !.dispatched = TRUE,
                                     !.sessionKey = routeSessionKey(streamSender)]]

\* the callback registered for TOPIC_ROBOT, up to its first suspension;
\* Date.now() reads t at the insert and t2 >= t afterwards
streamCallbackMutNoMark(pm, us, e, t, t2) ==
  LET dl == NewDelivery(e)
  IN  IF isMessageProcessed(pm, e.id)
      THEN [processedMessages |-> pm, userSessions |-> us,
            delivery |-> [dl EXCEPT !.pc = "dropped"]]
      ELSE IF e.kind = "bad"
      THEN [processedMessages |-> pm, userSessions |-> us,
            delivery |-> [dl EXCEPT !.pc = "failed", !.logged = 1]]
      ELSE LET r == handleDingTalkMessage(us, dl, t2)
           IN  [processedMessages |-> pm, userSessions |-> r.userSessions,
                delivery |-> r.delivery]

streamCallbackMutMarksParsed(pm, us, e, t, t2) ==
  LET dl == NewDelivery(e)
      marked == markMessageProcessed(pm, e.id, t, t2)
  IN  IF isMessageProcessed(pm, e.id)
      THEN [processedMessages |-> pm, userSessions |-> us,
            delivery |-> [dl EXCEPT !.pc = "dropped"]]
      ELSE IF e.kind = "bad"
      THEN [processedMessages |-> pm, userSessions |-> us,
            delivery |-> [dl EXCEPT !.pc = "failed", !.logged = 1]]
      ELSE LET r == handleDingTalkMessage(us, dl, t2)
           IN  [processedMessages |-> marked, userSessions |-> r.userSessions,
                delivery |-> r.delivery]

streamCallback(pm, us, e, t, t2) ==
  LET dl == NewDelivery(e)
      marked == markMessageProcessed(pm, e.id, t, t2)
  IN  IF isMessageProcessed(pm, e.id)
      THEN [processedMessages |-> pm, userSessions |-> us,
            delivery |-> [dl EXCEPT !.pc = "dropped"]]
      ELSE IF e.kind = "bad"
      THEN [processedMessages |-> marked, userSessions |-> us,
            delivery |-> [dl EXCEPT !.pc = "failed", !.logged = 1]]
      ELSE LET r == handleDingTalkMessage(us, dl, t2)
           IN  [processedMessages |-> marked, userSessions |-> r.userSessions,
                delivery |-> r.delivery]

\* handleDingTalkMessage after dispatchReplyFromConfig settled
\* (o = "throw": it rejected, the handler's catch logs)
dispatchSettled(dl, o) ==
  IF o = "ok" THEN [dl EXCEPT !.pc = "complete"]
  ELSE [dl EXCEPT !.pc = "dispatchFailed", !.logged = @ + 1]

\* gateway.startAccount (channel.ts): one call per account.  What the call
\* did is kept in order: "record" for rt.channel.activity.record, "disconnect"
\* for client.disconnect; heard lists the stop() calls and the abort events
\* that reached the closure.
Accounts == {"a1", "a2"}

NoAccount == [pc |-> "idle", hasSignal |-> FALSE, aborted |-> FALSE,
              listening |-> FALSE, stopped |-> FALSE, stops |-> 0,
              did |-> <<>>, heard |-> <<>>]

\* startAccount up to `await client.connect()`
startAccount(g, credentials, hasSignal) ==
  IF ~credentials THEN [g EXCEPT !.pc = "threw"]
  ELSE [g EXCEPT !.pc = "connecting", !.hasSignal = hasSignal]

\* startAccount after `await client.connect()`: the start record, the closure
\* and the abort listener; a listener added to a signal that has already
\* fired is never called
connected(g, o) ==
  IF o = "rejected" THEN [g EXCEPT !.pc = "threw"]
  ELSE [g EXCEPT !.pc = "started", !.did = Append(@, "record"),
                 !.stopped = FALSE, !.listening = g.hasSignal /\ ~g.aborted]

\* the handle's stop()
stopMutNoGuard(g) ==
  [g EXCEPT !.stopped = TRUE, !.did = @ \o <<"disconnect", "record">>,
            !.heard = Append(@, "stop"), !.stops = @ + 1]

stop(g) ==
  IF g.stopped
  THEN [g EXCEPT !.heard = Append(@, "stop"), !.stops = @ + 1]
  ELSE [g EXCEPT !.stopped = TRUE, !.did = @ \o <<"disconnect", "record">>,
                 !.heard = Append(@, "stop"), !.stops = @ + 1]

\* the abort signal fires, once: the listener runs if it is registered
onAbort(g) ==
  IF ~g.listening THEN [g EXCEPT !.aborted = TRUE]
  ELSE IF g.stopped
       THEN [g EXCEPT !.aborted = TRUE, !.heard = Append(@, "abort")]
       ELSE [g EXCEPT !.aborted = TRUE, !.stopped = TRUE,
                      !.did = @ \o <<"disconnect", "record">>,
                      !.heard = Append(@, "abort")]

\* ------------------------------------------------------------------ state
VARIABLES
  send,                 \* the frame of one sendToUser / sendToGroup call
  isDirect,             \* reply-dispatcher.ts: params.isDirect
  card,                 \* reply-dispatcher.ts: let card (0: null)
  cardCreationPromise,  \* reply-dispatcher.ts: let cardCreationPromise (0: null)
  creations,            \* the creations startCard began, and their cards
  mq,                   \* the microtask queue: handlers ready to resume, and
                        \* 0 for the dispatcher's caller (at the head: the
                        \* caller is running)
  procs,                \* the invocations of deliver / onError in flight,
                        \* in arrival order
  env,                  \* what the callers of the dispatcher may do
  now,                  \* Date.now()
  ticks,                \* how often the clock has moved
  processedMessages,    \* session.ts: processedMessages (id -> timestamp)
  userSessions,         \* session.ts: userSessions (senderId -> UserSession)
  stream,               \* channel.ts: the invocations of the stream callback
  last,                 \* the latest call on the dedup store, and its result
  ghost,                \* history: ids ever marked, ids evicted by a sweep,
                        \* each sender's latest getSessionKey call, and the
                        \* latest getSessionKey call with the one before it
  gateway               \* channel.ts: per account, the startAccount call, its
                        \* closure (stopped), its abort signal, and what it
                        \* did to the client and the activity log

dvars == <<isDirect, card, cardCreationPromise, creations, mq, procs, env>>
svars == <<now, ticks, processedMessages, userSessions, stream, last, ghost, gateway>>
vars == <<send, isDirect, card, cardCreationPromise, creations, mq, procs, env,
          now, ticks, processedMessages, userSessions, stream, last, ghost, gateway>>

\* ------------------------------------------------ the stores, untouched
Senders == {"s1", "s2"}

NoOp == [op |-> "none", id |-> EmptyId, at |-> 0, result |-> FALSE]
NoPrev == [forceNew |-> FALSE, T |-> 0, at |-> -1, key |-> <<>>, isNew |-> FALSE]
NoCall == [sender |-> "", forceNew |-> FALSE, T |-> 0, at |-> -1, key |-> <<>>,
           isNew |-> FALSE, prev |-> NoPrev]

StoresEmpty ==
  /\ processedMessages = [m \in {} |-> 0]
  /\ userSessions = [s \in {} |-> 0]
  /\ stream = <<>>
  /\ last = NoOp
  /\ ghost = [marked |-> {}, evicted |-> {},
              prevCall |-> [s \in Senders |-> NoPrev], lastCall |-> NoCall]
  /\ gateway = [a \in Accounts |-> NoAccount]

StoresIdle == now = 0 /\ ticks = 0 /\ StoresEmpty

\* ------------------------------------------- specification: one send call
SendOpts == [useAICard : OptBool, fallbackToNormal : OptBool, msgType : MsgTypes]
SendTargets == {[op |-> "user", ids |-> <<"u1">>],
                [op |-> "user", ids |-> <<"u1", "u2">>],
                [op |-> "group", ids |-> <<"g1">>]}

NoOpts == [useAICard |-> "undef", fallbackToNormal |-> "undef", msgType |-> "undef"]
IdleFrame == [NewFrame("user", <<"u1">>, <<>>, NoOpts) EXCEPT !.pc = "idle"]

DispatcherIdle ==
  /\ isDirect = TRUE
  /\ card = 0 /\ cardCreationPromise = 0
  /\ creations = <<>> /\ mq = <<>>
  /\ procs = <<>>
  /\ env = [texts |-> {}, finals |-> {}, scripts |-> {}, handlers |-> 0,
            creations |-> 0, idle |-> FALSE]

SendIdle == send = IdleFrame

\* the selectors sendProactive is called with
Selectors ==
  { NoSelector,
    [NoSelector EXCEPT !.userId = ""],
    [NoSelector EXCEPT !.userId = "u1"],
    [NoSelector EXCEPT !.userIds = <<>>],
    [NoSelector EXCEPT !.userIds = <<"u1", "u2">>],
    [NoSelector EXCEPT !.openConversationId = "g1"],
    [NoSelector EXCEPT !.userId = "u1", !.openConversationId = "g1"] }

ProactiveFrame(sel, content, opts) ==
  [NewFrame("none", <<>>, content, opts) EXCEPT !.pc = "proactive", !.selector = sel]

InitSend ==
  /\ \/ \E t \in SendTargets, c \in Contents, o \in SendOpts :
          send = NewFrame(t.op, t.ids, c, o)
     \/ \E sel \in Selectors, c \in Contents, o \in SendOpts :
          send = ProactiveFrame(sel, c, o)
  /\ DispatcherIdle
  /\ StoresIdle

SendProactiveCalled == /\ send.pc = "proactive"
                       /\ send' = sendProactive(send)
                       /\ UNCHANGED <<dvars, svars>>

SendToUserCalled == /\ send.pc = "entry" /\ send.op = "user"
                    /\ send' = sendEnter(send)
                    /\ UNCHANGED <<dvars, svars>>
SendToGroupCalled == /\ send.pc = "entry" /\ send.op = "group"
                     /\ send' = sendEnter(send)
                     /\ UNCHANGED <<dvars, svars>>
OapiTokenReturns == /\ send.pc = "oapiToken"
                    /\ \E o \in Outcomes(send.pc) : send' = sendAICardInternal(send, o)
                    /\ UNCHANGED <<dvars, svars>>
CardTokenReturns == /\ send.pc = "cardToken"
                    /\ \E o \in Outcomes(send.pc) : send' = createCardToken(send, o)
                    /\ UNCHANGED <<dvars, svars>>
CardCreateReturns == /\ send.pc = "cardCreate"
                     /\ \E o \in Outcomes(send.pc) : send' = createCardPost(send, o)
                     /\ UNCHANGED <<dvars, svars>>
CardDeliverReturns == /\ send.pc = "cardDeliver"
                      /\ \E o \in Outcomes(send.pc) : send' = createCardDeliver(send, o)
                      /\ UNCHANGED <<dvars, svars>>
PutInputingReturns == /\ send.pc = "putInputing"
                      /\ \E o \in Outcomes(send.pc) : send' = streamInputing(send, o)
                      /\ UNCHANGED <<dvars, svars>>
PutStreamReturns == /\ send.pc = "putStream"
                    /\ \E o \in Outcomes(send.pc) : send' = streamPush(send, o)
                    /\ UNCHANGED <<dvars, svars>>
PutFinishedReturns == /\ send.pc = "putFinished"
                      /\ \E o \in Outcomes(send.pc) : send' = finishAICard(send, o)
                      /\ UNCHANGED <<dvars, svars>>
NormTokenReturns == /\ send.pc = "normToken"
                    /\ \E o \in Outcomes(send.pc) : send' = sendNormalToken(send, o)
                    /\ UNCHANGED <<dvars, svars>>
NormPostReturns == /\ send.pc = "normPost"
                   /\ \E o \in Outcomes(send.pc) : send' = sendNormalPost(send, o)
                   /\ UNCHANGED <<dvars, svars>>

NextSend ==
  \/ SendProactiveCalled
  \/ SendToUserCalled
  \/ SendToGroupCalled
  \/ OapiTokenReturns
  \/ CardTokenReturns
  \/ CardCreateReturns
  \/ CardDeliverReturns
  \/ PutInputingReturns
  \/ PutStreamReturns
  \/ PutFinishedReturns
  \/ NormTokenReturns
  \/ NormPostReturns

SpecSend == InitSend /\ [][NextSend]_vars

\* ------------------------------------ specification: one dispatcher turn
\* core.channel.text.chunkTextWithMode: size-bounded chunks, in order
RECURSIVE chunkTextWithMode(_, _)
chunkTextWithMode(text, limit) ==
  IF Len(text) <= limit THEN <<text>>
  ELSE <<SubSeq(text, 1, limit)>> \o
       chunkTextWithMode(SubSeq(text, limit + 1, Len(text)), limit)

FragmentTexts == {<<>>, <<"s">>, <<"w">>, <<"w", "j">>}
ErrorText == <<"Error: ", "w">>
Done == <<"Done">>

\* one invocation of deliver or onError.  Besides its position (pc) and its
\* arguments it records what it observed and did:
\*   awaited      the creation deliver awaited before deciding (0: none)
\*   inFlight     that creation was still pending when deliver was called
\*   path         deliver's decision: "card", "plain" or "ignored"
\*   sawCard      the card deliver saw at `if (card)` (0: null)
\*   closeAwaited the creation closeCard awaited (0: none)
\*   closeInFlight that creation was still pending when closeCard was called
\*   closeSaw     the card closeCard saw at `if (card)` (0: null)
\*   fcard, ftext the arguments of finishAICard (fcard 0: not called)
\*   fcalls       the card calls issued by that finishAICard
\*   shown        ftext reached the card (content push or FINISHED update ok)
\*   sends        the sendToUser / sendToGroup calls started, in order
\*   acked        how many of them returned
\*   nested       how many card creations those calls attempted
NewProc(kind, text, final) ==
  [kind |-> kind, pc |-> "start", text |-> text, final |-> final,
   awaited |-> 0, inFlight |-> FALSE, path |-> "none", sawCard |-> 0,
   closeAwaited |-> 0, closeInFlight |-> FALSE, closeSaw |-> 0, fcard |-> 0, ftext |-> <<>>,
   fcalls |-> <<>>, shown |-> FALSE,
   sends |-> <<>>, acked |-> 0, nested |-> 0]

NewCreation == [status |-> "pending", waiters |-> <<>>, inputingStarted |-> FALSE]

\* any fragment, any remote outcome, MaxHandlers invocations in flight,
\* start signals enough for MaxCreations creations
AnyCaller == [texts |-> FragmentTexts, finals |-> BOOLEAN, scripts |-> SendScripts,
              handlers |-> MaxHandlers, creations |-> MaxCreations, idle |-> FALSE]

\* the same caller, with start signals enough for RaceCreations creations
RestartingCaller == [AnyCaller EXCEPT !.creations = RaceCreations]

InitTurn(caller) ==
  /\ send = IdleFrame
  /\ card = 0 /\ cardCreationPromise = 0
  /\ creations = <<>> /\ mq = <<>>
  /\ procs = <<>>
  /\ env = caller
  /\ StoresIdle

Init == isDirect \in BOOLEAN /\ InitTurn(AnyCaller)

InitRace == isDirect \in BOOLEAN /\ InitTurn(RestartingCaller)

\* a finished invocation returns to its caller before anything else runs
NoneDone == \A p \in DOMAIN procs : procs[p].pc # "done"

\* the caller of the callbacks (createReplyDispatcherWithTyping) is running:
\* callbacks are called synchronously, one after the other, between two
\* microtasks or at the start of a task
CallerRuns == NoneDone /\ mq # <<>> /\ Head(mq) = 0

\* the turn goes on: the idle signal has not fired
TurnOpen == ~env.idle

\* the caller gets the processor in a task of its own
CallerWakes ==
  /\ NoneDone
  /\ mq = <<>>
  /\ mq' = <<0>>
  /\ UNCHANGED <<svars, send, isDirect, env, card, cardCreationPromise, creations, procs>>

\* the caller returns to the event loop
CallerYields ==
  /\ CallerRuns
  /\ mq' = Tail(mq)
  /\ UNCHANGED <<svars, send, isDirect, env, card, cardCreationPromise, creations, procs>>

\* the caller's continuation is one more promise hop away
CallerDefers ==
  /\ CallerRuns
  /\ Len(mq) > 1
  /\ mq' = Append(Tail(mq), 0)
  /\ UNCHANGED <<svars, send, isDirect, env, card, cardCreationPromise, creations, procs>>

SetProc(p, rec) == IF p > Len(procs) THEN Append(procs, rec)
                   ELSE [procs EXCEPT ![p] = rec]

\* startCard: no-op while a creation promise or a card is held
startCard ==
  IF cardCreationPromise # 0 \/ card # 0
  THEN UNCHANGED <<cardCreationPromise, creations>>
  ELSE /\ Len(creations) < env.creations
       /\ creations' = Append(creations, NewCreation)
       /\ cardCreationPromise' = Len(creations) + 1

\* onReplyStart: startCard(), then typingCallbacks.onReplyStart, whose start
\* callback calls startCard() again (a no-op right after the first)
onReplyStart ==
  /\ CallerRuns /\ TurnOpen
  /\ startCard
  /\ UNCHANGED <<svars, send, isDirect, env, card, mq, procs>>

\* typingCallbacks.start
typingStart ==
  /\ CallerRuns /\ TurnOpen
  /\ startCard
  /\ UNCHANGED <<svars, send, isDirect, env, card, mq, procs>>

Pending(c) == creations[c].status = "pending"

\* `await cardCreationPromise` (the promise is not null): the handler resumes
\* from the microtask queue once the promise has resolved
AwaitPromise(p, rec, q, pc) ==
  LET c == cardCreationPromise
  IN  /\ procs' = SetProc(p, [rec EXCEPT !.pc = pc])
      /\ IF Pending(c)
         THEN /\ creations' = [creations EXCEPT ![c].waiters = Append(@, p)]
              /\ mq' = q
         ELSE /\ creations' = creations
              /\ mq' = Append(q, p)
      /\ UNCHANGED <<card, cardCreationPromise>>

\* streamAICard(card, content, true) up to its first await
streamAICard(rec) ==
  IF ~creations[rec.fcard].inputingStarted
  THEN [rec EXCEPT !.pc = "putInputing", !.fcalls = Append(@, "INPUTING")]
  ELSE [rec EXCEPT !.pc = "putStream", !.fcalls = Append(@, "streaming")]

\* closeCard from `if (card)` on
closeCardAfterAwait(p, rec, q) ==
  LET r == [rec EXCEPT !.closeSaw = card]
  IN  IF card # 0
      THEN /\ procs' = SetProc(p, streamAICard([r EXCEPT !.fcard = card]))
           /\ mq' = q
           /\ UNCHANGED <<card, cardCreationPromise, creations>>
      ELSE /\ cardCreationPromise' = 0
           /\ procs' = SetProc(p, [r EXCEPT !.pc = "done"])
           /\ mq' = q
           /\ UNCHANGED <<card, creations>>

\* closeCard(finalText) up to its first await; the text it will pass to
\* finishAICard is finalText || "Done"
closeCardMutNoAwait(p, rec, finalText, q) ==
  closeCardAfterAwait(p, [rec EXCEPT !.ftext = finalText,
                                     !.closeAwaited = cardCreationPromise], q)

closeCard(p, rec, finalText, q) ==
  LET r == [rec EXCEPT !.ftext = IF finalText = <<>> THEN Done ELSE finalText]
  IN  IF cardCreationPromise # 0
      THEN AwaitPromise(p, [r EXCEPT !.closeAwaited = cardCreationPromise,
                                     !.closeInFlight = Pending(cardCreationPromise)],
                        q, "closeAwait")
      ELSE closeCardAfterAwait(p, r, q)

\* sendPlainText(chunk): sendToUser / sendToGroup with options {}
sendPlainTextMutUser(rec, chunk) ==
  [rec EXCEPT !.pc = "plainSend",
              !.sends = Append(@, [to |-> "user", chunk |-> chunk])]

sendPlainText(rec, chunk) ==
  [rec EXCEPT !.pc = "plainSend",
              !.sends = Append(@, [to |-> IF isDirect THEN "user" ELSE "group",
                                   chunk |-> chunk])]

\* deliver from `if (card)` on
deliverDecideMutAlwaysCloses(p, rec, q) ==
  LET r == [rec EXCEPT !.sawCard = card]
  IN  IF card # 0
      THEN closeCard(p, [r EXCEPT !.path = "card"], r.text, q)
      ELSE /\ procs' = SetProc(p,
                sendPlainText([r EXCEPT !.path = "plain"],
                              chunkTextWithMode(r.text, textChunkLimit)[1]))
           /\ mq' = q
           /\ UNCHANGED <<card, cardCreationPromise, creations>>

deliverDecide(p, rec, q) ==
  LET r == [rec EXCEPT !.sawCard = card]
  IN  IF card # 0
      THEN IF r.final
           THEN closeCard(p, [r EXCEPT !.path = "card"], r.text, q)
           ELSE /\ procs' = SetProc(p, [r EXCEPT !.path = "card", !.pc = "done"])
                /\ mq' = q
                /\ UNCHANGED <<card, cardCreationPromise, creations>>
      ELSE /\ procs' = SetProc(p,
                sendPlainText([r EXCEPT !.path = "plain"],
                              chunkTextWithMode(r.text, textChunkLimit)[1]))
           /\ mq' = q
           /\ UNCHANGED <<card, cardCreationPromise, creations>>

\* deliver(payload, info) up to its first await
deliverEnterMutNoAwait(p, rec) ==
  IF Trim(rec.text) = <<>>
  THEN /\ procs' = SetProc(p, [rec EXCEPT !.path = "ignored", !.pc = "done"])
       /\ UNCHANGED <<card, cardCreationPromise, creations, mq>>
  ELSE deliverDecide(p, [rec EXCEPT !.awaited = cardCreationPromise,
                                    !.inFlight = IF cardCreationPromise = 0 THEN FALSE
                                                 ELSE Pending(cardCreationPromise)],
                     mq)

deliverEnterMutNoBlank(p, rec) ==
  IF cardCreationPromise # 0
  THEN AwaitPromise(p, [rec EXCEPT !.awaited = cardCreationPromise,
                                   !.inFlight = Pending(cardCreationPromise)],
                    mq, "awaitCreation")
  ELSE deliverDecide(p, rec, mq)

deliverEnter(p, rec) ==
  IF Trim(rec.text) = <<>>
  THEN /\ procs' = SetProc(p, [rec EXCEPT !.path = "ignored", !.pc = "done"])
       /\ UNCHANGED <<card, cardCreationPromise, creations, mq>>
  ELSE IF cardCreationPromise # 0
       THEN AwaitPromise(p, [rec EXCEPT !.awaited = cardCreationPromise,
                                        !.inFlight = Pending(cardCreationPromise)],
                         mq, "awaitCreation")
       ELSE deliverDecide(p, rec, mq)

\* deliver(payload, info) is called
deliver ==
  /\ CallerRuns /\ TurnOpen
  /\ Len(procs) < env.handlers
  /\ \E text \in env.texts, final \in env.finals :
       deliverEnter(Len(procs) + 1, NewProc("deliver", text, final))
  /\ UNCHANGED <<svars, send, isDirect, env>>

\* onError(error, info) is called: closeCard(`Error: ${String(error)}`)
onError ==
  /\ CallerRuns /\ TurnOpen
  /\ Len(procs) < env.handlers
  /\ closeCard(Len(procs) + 1, NewProc("error", <<>>, FALSE), ErrorText, mq)
  /\ UNCHANGED <<svars, send, isDirect, env>>

\* markDispatchIdle() after dispatchReplyFromConfig returned, every delivery
\* done: the dispatcher calls onIdle, which calls typingCallbacks.onIdle; the
\* typing stop callback is a no-op, so the card and the promise stay as they are
onIdle ==
  /\ CallerRuns /\ TurnOpen
  /\ procs = <<>>
  /\ env' = [env EXCEPT !.idle = TRUE]
  /\ UNCHANGED <<svars, send, isDirect, card, cardCreationPromise, creations, mq, procs>>

\* the async body of startCard settles: createAICardForTarget returned a card,
\* returned null, or threw (the catch sets card = null)
CreationSettles ==
  /\ NoneDone
  /\ mq = <<>>
  /\ \E c \in DOMAIN creations, o \in {"card", "null", "threw"} :
       /\ creations[c].status = "pending"
       /\ card' = IF o = "card" THEN c ELSE 0
       /\ creations' = [creations EXCEPT ![c].status = IF o = "card" THEN "card"
                                                        ELSE "failed",
                                         ![c].waiters = <<>>]
       /\ mq' = creations[c].waiters
  /\ UNCHANGED <<svars, send, isDirect, env, cardCreationPromise, procs>>

\* a handler resumes after `await cardCreationPromise`
MicrotaskRuns ==
  /\ NoneDone
  /\ mq # <<>> /\ Head(mq) # 0
  /\ LET p == Head(mq)
         rec == procs[p]
     IN  IF rec.pc = "awaitCreation"
         THEN deliverDecide(p, rec, Tail(mq))
         ELSE closeCardAfterAwait(p, rec, Tail(mq))
  /\ UNCHANGED <<svars, send, isDirect, env>>

\* streamAICard: the INPUTING status update returned (errors are swallowed)
CardInputingReturns ==
  /\ NoneDone
  /\ mq = <<>>
  /\ \E p \in DOMAIN procs, o \in {"ok", "fail"} :
       /\ procs[p].pc = "putInputing"
       /\ creations' = [creations EXCEPT ![procs[p].fcard].inputingStarted = TRUE]
       /\ procs' = [procs EXCEPT ![p].pc = "putStream",
                                 ![p].fcalls = Append(@, "streaming")]
  /\ UNCHANGED <<svars, send, isDirect, env, card, cardCreationPromise, mq>>

\* streamAICard: the content push returned (errors are swallowed);
\* finishAICard issues the FINISHED update
CardStreamReturns ==
  /\ NoneDone
  /\ mq = <<>>
  /\ \E p \in DOMAIN procs, o \in {"ok", "fail"} :
       /\ procs[p].pc = "putStream"
       /\ procs' = [procs EXCEPT ![p].pc = "putFinished",
                                 ![p].fcalls = Append(@, "FINISHED"),
                                 ![p].shown = @ \/ (o = "ok")]
  /\ UNCHANGED <<svars, send, isDirect, env, card, cardCreationPromise, creations, mq>>

\* finishAICard: the FINISHED update returned (errors are swallowed);
\* closeCard clears card and cardCreationPromise
CardFinishedReturns ==
  /\ NoneDone
  /\ mq = <<>>
  /\ \E p \in DOMAIN procs, o \in {"ok", "fail"} :
       /\ procs[p].pc = "putFinished"
       /\ card' = 0
       /\ cardCreationPromise' = 0
       /\ procs' = [procs EXCEPT ![p].pc = "done",
                                 ![p].shown = @ \/ (o = "ok")]
  /\ UNCHANGED <<svars, send, isDirect, env, creations, mq>>

\* deliver: sendPlainText(chunk) returned; the loop sends the next chunk
PlainSendReturns ==
  /\ NoneDone
  /\ mq = <<>>
  /\ \E p \in DOMAIN procs, script \in env.scripts :
       /\ procs[p].pc = "plainSend"
       /\ LET rec == procs[p]
              sent == rec.sends[Len(rec.sends)]
              f == RunSend(NewFrame(sent.to, IF sent.to = "user" THEN <<"u1">>
                                             ELSE <<"g1">>, sent.chunk, NoOpts),
                           script)
              chunks == chunkTextWithMode(rec.text, textChunkLimit)
              r == [rec EXCEPT !.acked = @ + 1,
                               !.nested = @ + f.cardAttempts]
          IN  procs' = [procs EXCEPT ![p] =
                 IF Len(rec.sends) < Len(chunks)
                 THEN sendPlainText(r, chunks[Len(rec.sends) + 1])
                 ELSE [r EXCEPT !.pc = "done"]]
  /\ UNCHANGED <<svars, send, isDirect, env, card, cardCreationPromise, creations, mq>>

\* positions after the invocation at position p has left the list
Shift(q, p) == [i \in DOMAIN q |-> IF q[i] > p THEN q[i] - 1 ELSE q[i]]

\* the caller's continuation joins the microtask queue (unless one is
\* already waiting there)
CallerResumes(q) == IF \E i \in 2 .. Len(q) : q[i] = 0 THEN q ELSE Append(q, 0)

\* a finished invocation returns to its caller: its promise resolves
HandlerReturns ==
  /\ \E p \in DOMAIN procs :
       /\ procs[p].pc = "done"
       /\ procs' = SubSeq(procs, 1, p - 1) \o SubSeq(procs, p + 1, Len(procs))
       /\ mq' = CallerResumes(Shift(mq, p))
       /\ creations' = [c \in DOMAIN creations |->
                          [creations[c] EXCEPT !.waiters = Shift(@, p)]]
  /\ UNCHANGED <<svars, send, isDirect, env, card, cardCreationPromise>>

Next ==
  \/ CallerWakes
  \/ CallerYields
  \/ CallerDefers
  \/ onReplyStart
  \/ typingStart
  \/ deliver
  \/ onError
  \/ onIdle
  \/ CreationSettles
  \/ MicrotaskRuns
  \/ CardInputingReturns
  \/ CardStreamReturns
  \/ CardFinishedReturns
  \/ PlainSendReturns
  \/ HandlerReturns

Spec == Init /\ [][Next]_vars

SpecRace == InitRace /\ [][Next]_vars

\* -------------------------------------- specification: the dedup store
\* The ids whose history is followed, and the empty id.
TrackedIds == {1, 2}
MsgIds == {EmptyId} \cup TrackedIds

\* The store as earlier deliveries left it: size ids, the first old of them
\* marked at time 0 and the others at the starting time; fewer than
\* SweepThreshold, so no sweep has run.
Earlier(size) == 3 .. (size + 2)
EarlierStore(size, old) ==
  [m \in Earlier(size) |-> IF m <= old + 2 THEN 0 ELSE MESSAGE_DEDUP_TTL]
StoreSizes == {0, SweepThreshold - 3, SweepThreshold - 2, SweepThreshold - 1}

\* the clock may move between the two Date.now() readings of one call
ClockDrift == {0, 1}

InitDedup ==
  /\ SendIdle /\ DispatcherIdle
  /\ now = MESSAGE_DEDUP_TTL /\ ticks = 0
  /\ \E size \in StoreSizes : \E old \in {0, 1, size} :
       /\ old <= size
       /\ processedMessages = EarlierStore(size, old)
       /\ ghost = [marked |-> Earlier(size), evicted |-> {},
                   prevCall |-> [s \in Senders |-> NoPrev], lastCall |-> NoCall]
  /\ userSessions = [s \in {} |-> 0]
  /\ stream = <<>>
  /\ last = NoOp
  /\ gateway = [a \in Accounts |-> NoAccount]

ClockAdvances ==
  /\ ticks < MaxTicks
  /\ now' = now + 1 /\ ticks' = ticks + 1
  /\ last' = [NoOp EXCEPT !.op = "tick"]
  /\ UNCHANGED <<send, dvars, processedMessages, userSessions, stream, ghost, gateway>>

ClockJumps ==
  /\ ticks < MaxTicks
  /\ now' = now + MESSAGE_DEDUP_TTL /\ ticks' = ticks + 1
  /\ last' = [NoOp EXCEPT !.op = "tick"]
  /\ UNCHANGED <<send, dvars, processedMessages, userSessions, stream, ghost, gateway>>

MarkMessageProcessedCalled ==
  \E m \in MsgIds, d \in ClockDrift :
    /\ ticks + d <= MaxTicks
    /\ now' = now + d /\ ticks' = ticks + d
    /\ processedMessages' = markMessageProcessed(processedMessages, m, now, now + d)
    /\ last' = [op |-> "mark", id |-> m, at |-> now + d, result |-> FALSE]
    /\ ghost' = [ghost EXCEPT
                   !.marked = @ \cup ({m} \ {EmptyId}),
                   !.evicted = @ \cup ((DOMAIN processedMessages \cup {m})
                                         \ (DOMAIN processedMessages' \cup {EmptyId}))]
    /\ UNCHANGED <<send, dvars, userSessions, stream, gateway>>

IsMessageProcessedCalled ==
  \E m \in MsgIds :
    /\ last' = [op |-> "is", id |-> m, at |-> now,
                result |-> isMessageProcessed(processedMessages, m)]
    /\ UNCHANGED <<send, dvars, now, ticks, processedMessages, userSessions, stream,
                   ghost, gateway>>

NextDedup ==
  \/ ClockAdvances
  \/ ClockJumps
  \/ MarkMessageProcessedCalled
  \/ IsMessageProcessedCalled

SpecDedup == InitDedup /\ [][NextDedup]_vars

\* ------------------------------------ specification: the session store
SessionTimeouts == {-1, 0, 2}

InitSession == SendIdle /\ DispatcherIdle /\ StoresIdle

GetSessionKeyCalled ==
  \E s \in Senders, forceNew \in BOOLEAN, T \in SessionTimeouts :
    LET r == getSessionKey(userSessions, s, forceNew, T, now)
        call == [forceNew |-> forceNew, T |-> T, at |-> now,
                 key |-> r.sessionKey, isNew |-> r.isNew]
    IN  /\ userSessions' = r.userSessions
        /\ ghost' = [ghost EXCEPT
                       !.prevCall[s] = call,
                       !.lastCall = [sender |-> s, forceNew |-> forceNew, T |-> T,
                                     at |-> now, key |-> r.sessionKey,
                                     isNew |-> r.isNew, prev |-> ghost.prevCall[s]]]
        /\ UNCHANGED <<send, dvars, now, ticks, processedMessages, stream, last, gateway>>

NextSession ==
  \/ ClockAdvances
  \/ GetSessionKeyCalled

SpecSession == InitSession /\ [][NextSession]_vars

\* ---------------------------------- specification: the stream callback
StreamEvents == [id : MsgIds, kind : EventKinds]

\* a text event with id 1 that was delivered at time 0 and handled to the end
EarlierDelivery ==
  [dispatchSettled(streamCallback([m \in {} |-> 0], [s \in {} |-> 0],
                                  [id |-> 1, kind |-> "text"], 0, 0).delivery, "ok")
     EXCEPT !.earlier = TRUE]

\* Either nothing was delivered yet, or EarlierDelivery was and its id has
\* been in the store since time 0; the other ids of the store were marked at
\* the starting time.
InitStream ==
  /\ SendIdle /\ DispatcherIdle
  /\ now = MESSAGE_DEDUP_TTL /\ ticks = 0
  /\ \E size \in {0, SweepThreshold - 1}, before \in BOOLEAN :
       /\ processedMessages =
            IF before THEN MapSet(EarlierStore(size, 0), 1, 0)
            ELSE EarlierStore(size, 0)
       /\ stream = IF before THEN <<EarlierDelivery>> ELSE <<>>
       /\ ghost = [marked |-> DOMAIN processedMessages, evicted |-> {},
                   prevCall |-> [s \in Senders |-> NoPrev], lastCall |-> NoCall]
  /\ userSessions = [s \in {} |-> 0]
  /\ last = NoOp
  /\ gateway = [a \in Accounts |-> NoAccount]

\* the invocations since the initial state
Delivered(q) == SelectSeq(q, LAMBDA dl : ~dl.earlier)

StreamDelivers ==
  \E e \in StreamEvents, d \in ClockDrift :
    LET r == streamCallback(processedMessages, userSessions, e, now, now + d)
    IN  /\ Len(Delivered(stream)) < MaxDeliveries
        /\ ticks + d <= MaxTicks
        /\ now' = now + d /\ ticks' = ticks + d
        /\ processedMessages' = r.processedMessages
        /\ userSessions' = r.userSessions
        /\ stream' = Append(stream, r.delivery)
        /\ last' = [op |-> IF r.delivery.pc = "dropped" THEN "is" ELSE "mark",
                    id |-> e.id, at |-> now + d,
                    result |-> r.delivery.pc = "dropped"]
        /\ ghost' = [ghost EXCEPT
                       !.marked = @ \cup (DOMAIN processedMessages'
                                            \ DOMAIN processedMessages),
                       !.evicted = @ \cup (DOMAIN processedMessages
                                             \ DOMAIN processedMessages')]
        /\ UNCHANGED <<send, dvars, gateway>>

DispatchSettles ==
  \E i \in DOMAIN stream, o \in {"ok", "throw"} :
    /\ stream[i].pc = "dispatching"
    /\ stream' = [stream EXCEPT ![i] = dispatchSettled(stream[i], o)]
    /\ UNCHANGED <<send, dvars, now, ticks, processedMessages, userSessions,
                   last, ghost, gateway>>

NextStream ==
  \/ ClockJumps
  \/ StreamDelivers
  \/ DispatchSettles

SpecStream == InitStream /\ [][NextStream]_vars

\* ------------------------------------ specification: the gateway accounts
InitGateway == SendIdle /\ DispatcherIdle /\ StoresIdle

StartAccountCalled ==
  \E a \in Accounts, credentials \in BOOLEAN, hasSignal \in BOOLEAN :
    /\ gateway[a].pc = "idle"
    /\ gateway' = [gateway EXCEPT ![a] = startAccount(@, credentials, hasSignal)]
    /\ UNCHANGED <<send, dvars, now, ticks, processedMessages, userSessions,
                   stream, last, ghost>>

ConnectSettles ==
  \E a \in Accounts, o \in {"connected", "rejected"} :
    /\ gateway[a].pc = "connecting"
    /\ gateway' = [gateway EXCEPT ![a] = connected(@, o)]
    /\ UNCHANGED <<send, dvars, now, ticks, processedMessages, userSessions,
                   stream, last, ghost>>

StopCalled ==
  \E a \in Accounts :
    /\ gateway[a].pc = "started"
    /\ gateway[a].stops < MaxStops
    /\ gateway' = [gateway EXCEPT ![a] = stop(@)]
    /\ UNCHANGED <<send, dvars, now, ticks, processedMessages, userSessions,
                   stream, last, ghost>>

AbortSignalled ==
  \E a \in Accounts :
    /\ gateway[a].pc \in {"connecting", "started"}
    /\ gateway[a].hasSignal /\ ~gateway[a].aborted
    /\ gateway' = [gateway EXCEPT ![a] = onAbort(@)]
    /\ UNCHANGED <<send, dvars, now, ticks, processedMessages, userSessions,
                   stream, last, ghost>>

NextGateway ==
  \/ StartAccountCalled
  \/ ConnectSettles
  \/ StopCalled
  \/ AbortSignalled

SpecGateway == InitGateway /\ [][NextGateway]_vars

\* ------------------------------------------------------------------ claims
Deliveries == {p \in DOMAIN procs : procs[p].kind = "deliver"}
Errors == {p \in DOMAIN procs : procs[p].kind = "error"}
ChunksOf(r) == chunkTextWithMode(r.text, textChunkLimit)
TurnTarget == IF isDirect THEN "user" ELSE "group"

C2_AtMostOneCreation == Len(creations) <= 1

\* C3 (as claimed): a final fragment that finds a card at `if (card)` has
\* finishAICard called on that card with its text, and starts no plain send.
C3_FinalFinishesCard ==
  \A p \in Deliveries :
    LET r == procs[p]
    IN  (r.pc = "done" /\ r.final /\ r.sawCard # 0) =>
          /\ r.fcard = r.sawCard
          /\ r.ftext = r.text
          /\ r.sends = <<>>

\* C4: a fragment that finds no card at `if (card)` sends its chunks to the
\* turn's target in chunk order, one send at a time, and has sent them all
\* when deliver returns.
C4_PlainChunksInOrder ==
  \A p \in Deliveries :
    LET r == procs[p]
        n == Len(r.sends)
    IN  (r.path \in {"card", "plain"} /\ r.sawCard = 0) =>
          /\ r.path = "plain"
          /\ r.pc \in {"plainSend", "done"}
          /\ n <= Len(ChunksOf(r))
          /\ \A i \in 1 .. n :
               r.sends[i] = [to |-> TurnTarget, chunk |-> ChunksOf(r)[i]]
          /\ n = r.acked + (IF r.pc = "plainSend" THEN 1 ELSE 0)
          /\ r.pc = "done" => n = Len(ChunksOf(r))

C4_Witness ==
  \E p \in Deliveries :
    /\ procs[p].pc = "done" /\ procs[p].path = "plain"
    /\ procs[p].awaited # 0 /\ creations[procs[p].awaited].status = "failed"
    /\ Len(procs[p].sends) >= 2
    /\ ~isDirect

\* C5 (as claimed): the sends of the fallback attempt no card creation.
C5_FallbackAttemptsNoCard ==
  \A p \in Deliveries : procs[p].nested = 0

\* C6 (as claimed): when deliver returns for a final fragment, its text has
\* either reached the card (and no plain send was made) or every chunk of it
\* was handed to the plain path (and nothing reached a card), never neither.
C6_FinalTextExactlyOnce ==
  \A p \in Deliveries :
    LET r == procs[p]
    IN  (r.pc = "done" /\ r.final /\ r.path \in {"card", "plain"}) =>
          \/ r.shown /\ r.sends = <<>>
          \/ ~r.shown /\ Len(r.sends) = Len(ChunksOf(r))

SingleUserRich ==
  /\ send.op = "user" /\ Len(send.ids) = 1 /\ DefaultTrue(send.opts.useAICard)

PlainPosts == {"POST oToMessages/batchSend", "POST groupMessages/send"}

RichBeforePlain ==
  /\ send.normalCalls > 0 => send.rich # "none"
  /\ \A i \in DOMAIN send.calls :
       send.calls[i] \in PlainPosts =>
         \E j \in 1 .. (i - 1) : send.calls[j] = "getOapiAccessToken"

\* C8 (as claimed): the rich path is attempted before any plain send, and when
\* the rich attempt reports ok the plain path is never entered and the result
\* has ok = true and usedAICard = true.
C8_RichOkUsedCard ==
  SingleUserRich =>
    /\ RichBeforePlain
    /\ send.rich = "ok" =>
         /\ send.normalCalls = 0
         /\ send.pc = "done" /\ send.result.ok /\ send.result.usedAICard

\* C8 (amended): ... the result has ok = true, and usedAICard = true exactly
\* when the content is not blank after media processing; for blank content no
\* card is created.
C8_RichFirst ==
  SingleUserRich =>
    /\ RichBeforePlain
    /\ send.rich = "ok" =>
         /\ send.normalCalls = 0
         /\ send.pc = "done" /\ send.result.ok
         /\ send.result.usedAICard <=> Trim(send.processed) # <<>>
         /\ send.result.usedAICard <=> send.cardAttempts = 1

C8_Witness ==
  /\ SingleUserRich /\ send.pc = "done" /\ send.rich = "ok"
  /\ send.result.usedAICard /\ send.content # send.processed

\* a remote call of the rich attempt failed
RichCalls == {"POST card/instances", "POST card/instances/deliver",
              "PUT card/streaming", "PUT card/instances FINISHED"}
RichStepFailed ==
  \/ \E i \in DOMAIN send.acks : send.calls[i] \in RichCalls /\ send.acks[i] = "fail"
  \/ \E i \in DOMAIN send.acks : /\ send.calls[i] = "getAccessToken"
                                 /\ send.acks[i] = "fail"
                                 /\ send.normalCalls = 0

\* C9 (as claimed): when a step of the rich attempt fails and fallbackToNormal
\* is not false, the plain send is invoked exactly once and the caller gets
\* its result.
C9_FailedRichFallsBack ==
  (SingleUserRich /\ DefaultTrue(send.opts.fallbackToNormal)
     /\ send.pc = "done" /\ RichStepFailed) =>
    /\ send.normalCalls = 1
    /\ ~send.result.usedAICard

\* the rich attempt failed at a step whose failure sendAICardInternal reports:
\* the credential, the card instance or its delivery to the target
RichCreationFailed ==
  \E i \in DOMAIN send.acks :
    /\ send.calls[i] \in {"getAccessToken", "POST card/instances",
                          "POST card/instances/deliver"}
    /\ send.acks[i] = "fail"
    /\ send.normalCalls = 0

NoRichSendToUser ==
  /\ send.op = "user" /\ send.pc # "entry"
  /\ (Len(send.ids) > 1 \/ send.opts.useAICard = "false")

C11_NoRichForManyOrDisabled ==
  NoRichSendToUser =>
    /\ send.rich = "none" /\ send.cardAttempts = 0
    /\ \A i \in DOMAIN send.calls :
         send.calls[i] \notin RichCalls \cup {"getOapiAccessToken"}
    /\ send.normalCalls = 1
    /\ Cardinality({i \in DOMAIN send.calls : send.calls[i] \in PlainPosts}) <= 1
    /\ \A i \in DOMAIN send.calls :
         send.calls[i] \in PlainPosts =>
           /\ send.calls[i] = "POST oToMessages/batchSend"
           /\ send.postedTo = send.ids

C11_Witness ==
  /\ NoRichSendToUser /\ Len(send.ids) > 1 /\ send.opts.useAICard # "false"
  /\ send.pc = "done" /\ send.result.ok /\ send.postedTo = send.ids

\* the rich attempt failed at the credential, the card instance or its
\* delivery (calls[2] is the credential createAICardForTarget asks for)
RichFailedEarly ==
  \E i \in DOMAIN send.acks :
    /\ send.acks[i] = "fail"
    /\ \/ send.calls[i] \in {"POST card/instances", "POST card/instances/deliver"}
       \/ send.calls[i] = "getAccessToken" /\ i = 2 /\ send.calls[1] = "getOapiAccessToken"

NoTarget(sel) ==
  Falsy(sel.userId) /\ sel.userIds = "undef" /\ Falsy(sel.openConversationId)

C13_NoTargetFailsFast ==
  (send.api = "sendProactive" /\ NoTarget(send.selector) /\ send.pc # "proactive") =>
    /\ send.pc = "done"
    /\ ~send.result.ok /\ ~send.result.usedAICard
    /\ send.result.error = "Must specify userId, userIds, or openConversationId"
    /\ send.calls = <<>> /\ send.acks = <<>>
    /\ send.rich = "none" /\ send.cardAttempts = 0 /\ send.normalCalls = 0

C13_Witness ==
  /\ send.api = "sendProactive" /\ send.selector = NoSelector
  /\ send.pc = "done" /\ send.content # <<>>
  /\ send.result.error = "Must specify userId, userIds, or openConversationId"
\* the content reached the target: the card's content push or a plain post
\* was accepted
ContentDelivered ==
  \E i \in DOMAIN send.acks :
    send.acks[i] = "ok" /\ send.calls[i] \in PlainPosts \cup {"PUT card/streaming"}

\* a credential request or a remote call failed or was rejected
SomeCallFailed == \E i \in DOMAIN send.acks : send.acks[i] # "ok"

\* C14 (as claimed): whatever credential, card creation, network or remote
\* failures occur, the public send operations complete with a Send Result, and
\* when a failure left the (non-blank) content undelivered the result has
\* ok = false and an error string.
C14_FailureReported ==
  (send.pc = "done" /\ SomeCallFailed /\ ~ContentDelivered /\ Trim(send.content) # <<>>) =>
    /\ ~send.result.ok
    /\ send.result.error # ""
\* the request asks for a link or action-card message and its content is not
\* parseable as the payload of one
MalformedPayload ==
  send.opts.msgType \in {"link", "actionCard"} /\ ~JsonParses(send.content)

\* C15 (as claimed): a send request of kind link or actionCard with malformed
\* content is a request-time error: the public operation completes with
\* ok = false and an error.
C15_MalformedPayloadRejected ==
  (send.pc = "done" /\ MalformedPayload) =>
    /\ ~send.result.ok
    /\ send.result.error # ""
\* the age of entry k of the dedup store at time t
Age(k, t) == t - processedMessages[k]

\* C16: for a non-empty id m, isMessageProcessed(m) is false until the first
\* markMessageProcessed(m), true right after it, and stays true until a sweep
\* removes m; m is removed only by a markMessageProcessed call that leaves at
\* least SweepThreshold entries after its insert and finds m older than the
\* TTL.
C16Step ==
  \A m \in TrackedIds :
    /\ m \notin ghost'.marked => ~isMessageProcessed(processedMessages', m)
    /\ (last'.op = "mark" /\ last'.id = m) => isMessageProcessed(processedMessages', m)
    /\ (isMessageProcessed(processedMessages, m)
          /\ ~isMessageProcessed(processedMessages', m)) =>
         /\ last'.op = "mark"
         /\ Age(m, last'.at) > MESSAGE_DEDUP_TTL
         /\ Cardinality(DOMAIN processedMessages \cup {last'.id}) >= SweepThreshold
    /\ (last'.op = "is" /\ last'.id = m) =>
         (last'.result <=> m \in DOMAIN processedMessages)

C16_ProcessedUntilSwept ==
  /\ \A m \in TrackedIds : m \notin ghost.marked => ~isMessageProcessed(processedMessages, m)
  /\ [][C16Step]_vars

C16_Witness ==
  /\ 1 \in ghost.marked /\ 1 \in ghost.evicted
  /\ ~isMessageProcessed(processedMessages, 1)
  /\ last.op = "mark" /\ last.id = 2

\* C17: a markMessageProcessed call with fewer than SweepThreshold entries
\* after its insert removes nothing; with SweepThreshold or more it leaves no
\* entry older than the TTL and removes none of age at most the TTL.
C17Step ==
  (last'.op = "mark" /\ last'.id # EmptyId) =>
    LET m == last'.id
        inserted == DOMAIN processedMessages \cup {m}
        age(k) == IF k = m THEN last'.at - now ELSE Age(k, last'.at)
    IN  /\ processedMessages'[m] = now
        /\ \A k \in DOMAIN processedMessages' \ {m} :
             k \in DOMAIN processedMessages
               /\ processedMessages'[k] = processedMessages[k]
        /\ IF Cardinality(inserted) < SweepThreshold
           THEN DOMAIN processedMessages' = inserted
           ELSE DOMAIN processedMessages' =
                  {k \in inserted : age(k) <= MESSAGE_DEDUP_TTL}

C17_SweepAtThreshold == [][C17Step]_vars

C17_Witness ==
  /\ last.op = "mark" /\ last.id \in TrackedIds
  /\ ghost.evicted # {}
  /\ \E k \in DOMAIN processedMessages :
       k # last.id /\ Age(k, last.at) = MESSAGE_DEDUP_TTL

\* C19: two consecutive getSessionKey(s, false, T) calls at most T apart
\* return the same sessionKey, and the second reports isNew = false.
WithinTimeout(c) ==
  /\ c.at >= 0 /\ ~c.forceNew
  /\ c.prev.at >= 0 /\ ~c.prev.forceNew /\ c.prev.T = c.T
  /\ c.at - c.prev.at <= c.T

C19_ReusedWithinTimeout ==
  WithinTimeout(ghost.lastCall) =>
    /\ ghost.lastCall.key = ghost.lastCall.prev.key
    /\ ~ghost.lastCall.isNew

C19_Witness ==
  /\ WithinTimeout(ghost.lastCall)
  /\ ghost.lastCall.T > 0
  /\ ghost.lastCall.at - ghost.lastCall.prev.at = ghost.lastCall.T
  /\ ghost.lastCall.key = firstSessionId(ghost.lastCall.sender)

\* C20: getSessionKey(s, true, T) reports isNew = true with a key made of the
\* sender and the current time, and leaves that key stored for s with
\* lastActivity at the current time, whether or not s had a session and
\* whatever its age.
C20_ForcedRotates ==
  LET c == ghost.lastCall
  IN  (c.at >= 0 /\ c.forceNew) =>
        /\ c.isNew
        /\ c.key = rotatedSessionId(c.sender, c.at)
        /\ c.sender \in DOMAIN userSessions
        /\ userSessions[c.sender] = [lastActivity |-> c.at, sessionId |-> c.key]

C20_Witness ==
  LET c == ghost.lastCall
  IN  /\ c.at >= 0 /\ c.forceNew
      /\ c.prev.at >= 0 /\ c.at - c.prev.at <= c.T
      /\ c.key # c.prev.key
      /\ userSessions[c.sender].sessionId = c.key
\* C18: of two deliveries of one non-empty message id, with no sweep having
\* evicted the id, the later one is dropped before handleDingTalkMessage,
\* route resolution and dispatch, also while the earlier one is still being
\* handled; at most one delivery of the id reaches handleDingTalkMessage.
C18_SecondDeliveryDropped ==
  \A m \in TrackedIds :
    m \notin ghost.evicted =>
      /\ \A i, j \in DOMAIN stream :
           (i < j /\ stream[i].id = m /\ stream[j].id = m) =>
             /\ stream[j].pc = "dropped"
             /\ ~stream[j].handled /\ ~stream[j].routed /\ ~stream[j].dispatched
      /\ Cardinality({i \in DOMAIN stream : stream[i].id = m /\ stream[i].handled}) <= 1

C18_Witness ==
  /\ Len(stream) = 2
  /\ stream[1].id = 2 /\ stream[1].pc = "dispatching"
  /\ stream[2].id = 2 /\ stream[2].pc = "dropped"
  /\ 2 \notin ghost.evicted /\ ghost.evicted # {}
\* the latest getSessionKey call found a session of its sender; every call
\* leaves lastActivity at its own time, so the time of the sender's previous
\* call is the lastActivity this call found
FoundSession(c) == c.at >= 0 /\ c.prev.at >= 0

\* C21 (as claimed): a rotation, forced or by timeout, returns a sessionKey
\* different from the key the sender held immediately before, also when both
\* rotations happen at one clock value.
C21_RotationFreshKey ==
  LET c == ghost.lastCall
  IN  (FoundSession(c) /\ c.isNew) => c.key # c.prev.key

\* C22: for a sender with a session, getSessionKey(s, false, T) rotates and
\* reports isNew = true exactly when now - lastActivity > T; at elapsed = T it
\* keeps the key and reports isNew = false.
C22_RotatesPastTimeout ==
  LET c == ghost.lastCall
  IN  (FoundSession(c) /\ ~c.forceNew) =>
        /\ c.isNew <=> c.at - c.prev.at > c.T
        /\ c.isNew => c.key = rotatedSessionId(c.sender, c.at)
        /\ ~c.isNew => c.key = c.prev.key
        /\ userSessions[c.sender] = [lastActivity |-> c.at, sessionId |-> c.key]

C22_Witness ==
  LET c == ghost.lastCall
  IN  /\ FoundSession(c) /\ ~c.forceNew
      /\ c.T > 0 /\ c.at - c.prev.at = c.T + 1
      /\ c.isNew /\ c.key # c.prev.key

\* C23: the first getSessionKey(s, false, T) call for a sender without a
\* session stores a session whose key is made of the sender id alone and
\* reports isNew = false.
C23_FirstContactKey ==
  LET c == ghost.lastCall
  IN  (c.at >= 0 /\ c.prev.at < 0 /\ ~c.forceNew) =>
        /\ ~c.isNew
        /\ c.key = <<"dingtalk-connector", c.sender>>
        /\ userSessions[c.sender] = [lastActivity |-> c.at, sessionId |-> c.key]

C23_Witness ==
  LET c == ghost.lastCall
  IN  /\ c.at > 0 /\ c.prev.at < 0 /\ ~c.forceNew
      /\ c.sender = "s2" /\ "s1" \in DOMAIN userSessions
      /\ userSessions["s2"].sessionId = firstSessionId("s2")

\* C24: a stored session is never removed, and the stored key of a sender
\* changes only in a getSessionKey call for that sender that is forceNew or
\* finds the session timed out.
C24Step ==
  /\ DOMAIN userSessions \subseteq DOMAIN userSessions'
  /\ DOMAIN userSessions' \subseteq Senders
  /\ \A s \in DOMAIN userSessions :
       userSessions'[s].sessionId # userSessions[s].sessionId =>
         /\ ghost'.lastCall.sender = s
         /\ \/ ghost'.lastCall.forceNew
            \/ now - userSessions[s].lastActivity > ghost'.lastCall.T

C24_KeyChangesOnlyOnRotation == [][C24Step]_vars

C24_Witness ==
  LET c == ghost.lastCall
  IN  /\ c.sender = "s2" /\ FoundSession(c) /\ ~c.isNew
      /\ "s1" \in DOMAIN userSessions
      /\ userSessions["s1"].sessionId # firstSessionId("s1")
      /\ userSessions["s2"].sessionId # firstSessionId("s2")
\* the step is an invocation of the stream callback for an event of kind k
\* that the dedup check let through
Handles(k) ==
  /\ Len(stream') = Len(stream) + 1
  /\ stream'[Len(stream')].kind = k
  /\ stream'[Len(stream')].pc # "dropped"

\* C25: an event whose text is a reset command rotates the sender's session
\* and ends the turn: handleDingTalkMessage returns without resolving a
\* route and without creating or running a reply dispatcher, the only maker
\* of cards and sends.
C25Step ==
  /\ Handles("reset") =>
       /\ stream'[Len(stream')].handled
       /\ streamSender \in DOMAIN userSessions'
       /\ userSessions'[streamSender] =
            [lastActivity |-> now', sessionId |-> rotatedSessionId(streamSender, now')]
  /\ \A i \in DOMAIN stream' :
       stream'[i].kind = "reset" =>
         /\ stream'[i].pc \in {"dropped", "returned"}
         /\ ~stream'[i].routed /\ ~stream'[i].dispatched
         /\ stream'[i].sessionKey = <<>>

C25_ResetEndsTurn == [][C25Step]_vars

C25_Witness ==
  /\ Len(stream) = 2
  /\ stream[1].kind = "text" /\ stream[1].pc = "dispatching"
  /\ stream[2].kind = "reset" /\ stream[2].handled /\ stream[2].pc = "returned"
  /\ userSessions[streamSender].lastActivity = now

\* C26 (as claimed): once handleDingTalkMessage has handled a non-empty,
\* non-reset event of a sender, the session store holds a session for that
\* sender.
C26_TurnCreatesSession ==
  \A i \in DOMAIN stream :
    (stream[i].kind = "text" /\ stream[i].handled /\ ~stream[i].earlier) =>
      streamSender \in DOMAIN userSessions

\* C29: an event without extracted text is dropped by handleDingTalkMessage
\* before any other effect: the session store is unchanged, no route is
\* resolved, no dispatcher is created or run, nothing is logged as an error.
C29Step ==
  /\ Handles("empty") =>
       /\ stream'[Len(stream')].handled
       /\ userSessions' = userSessions
  /\ \A i \in DOMAIN stream' :
       stream'[i].kind = "empty" =>
         /\ stream'[i].pc \in {"dropped", "returned"}
         /\ ~stream'[i].routed /\ ~stream'[i].dispatched
         /\ stream'[i].sessionKey = <<>> /\ stream'[i].logged = 0

C29_EmptyTextDropped == [][C29Step]_vars

C29_Witness ==
  /\ Len(stream) = 2
  /\ stream[1].kind = "reset" /\ stream[1].handled
  /\ stream[2].kind = "empty" /\ stream[2].handled /\ stream[2].pc = "returned"
  /\ streamSender \in DOMAIN userSessions
\* C30: for the empty message id isMessageProcessed returns false in every
\* state and markMessageProcessed leaves the dedup store as it is, with no
\* insert and no sweep whatever the size and age of its entries.
C30Step ==
  /\ EmptyId \notin DOMAIN processedMessages'
  /\ ~isMessageProcessed(processedMessages', EmptyId)
  /\ (last'.op = "is" /\ last'.id = EmptyId) => ~last'.result
  /\ (last'.op = "mark" /\ last'.id = EmptyId) =>
       /\ processedMessages' = processedMessages
       /\ ghost'.evicted = ghost.evicted /\ ghost'.marked = ghost.marked

C30_EmptyIdNeverStored ==
  /\ ~isMessageProcessed(processedMessages, EmptyId)
  /\ [][C30Step]_vars

C30_Witness ==
  /\ last.op = "mark" /\ last.id = EmptyId
  /\ Cardinality(DOMAIN processedMessages) >= SweepThreshold
  /\ \E k \in DOMAIN processedMessages : Age(k, now) > MESSAGE_DEDUP_TTL
\* C28: a fragment whose text is empty or whitespace-only is ignored by
\* deliver, final or not: the call returns at once without awaiting or
\* starting a card creation, makes no card call and no plain send, and leaves
\* card, cardCreationPromise, the creations and the microtask queue as they were.
BlankFragment(rec) == rec.kind = "deliver" /\ Trim(rec.text) = <<>>

Ignored(rec) ==
  /\ rec.pc = "done" /\ rec.path = "ignored"
  /\ rec.awaited = 0 /\ rec.closeAwaited = 0
  /\ rec.fcard = 0 /\ rec.fcalls = <<>>
  /\ rec.sends = <<>> /\ rec.nested = 0

C28Step ==
  (Len(procs') = Len(procs) + 1 /\ BlankFragment(procs'[Len(procs')])) =>
    /\ Ignored(procs'[Len(procs')])
    /\ UNCHANGED <<card, cardCreationPromise, creations, mq, send>>

C28_BlankFragmentIgnored ==
  /\ \A p \in DOMAIN procs : BlankFragment(procs[p]) => Ignored(procs[p])
  /\ [][C28Step]_vars

C28_Witness ==
  /\ card # 0
  /\ \E p \in DOMAIN procs :
       /\ BlankFragment(procs[p]) /\ procs[p].text = <<>> /\ procs[p].final
       /\ Ignored(procs[p])
\* C27: for a started account, whatever stop() calls and abort events reach
\* it, the client is disconnected at most once and the activity log gets one
\* record for the start and one for the stop: the first stop or abort does
\* both, every later one does nothing.  An account that never started has
\* done nothing.
Count(q, x) == Len(SelectSeq(q, LAMBDA y : y = x))

C27_StopIdempotent ==
  \A a \in Accounts :
    LET g == gateway[a]
    IN  IF g.pc = "started"
        THEN /\ Count(g.did, "disconnect") <= 1
             /\ g.did = IF g.heard = <<>> THEN <<"record">>
                        ELSE <<"record", "disconnect", "record">>
             /\ g.stopped <=> g.heard # <<>>
        ELSE g.did = <<>>

C27_Witness ==
  /\ gateway["a1"].pc = "started" /\ gateway["a2"].pc = "started"
  /\ gateway["a1"].heard = <<"stop", "abort", "stop">>
  /\ gateway["a1"].did = <<"record", "disconnect", "record">>
  /\ gateway["a2"].heard = <<>> /\ gateway["a2"].aborted
\* C31: when deliver finds a card for a non-empty fragment that is not final,
\* it returns without any remote call: no content push, no status update, no
\* plain send; the card, the creation promise and the creations stay as they
\* were, and no other invocation is touched.
Intermediate(rec) ==
  rec.kind = "deliver" /\ ~rec.final /\ Trim(rec.text) # <<>> /\ rec.path = "card"

Quiet(rec) ==
  /\ rec.pc = "done" /\ rec.sawCard # 0
  /\ rec.closeAwaited = 0 /\ rec.fcard = 0 /\ rec.fcalls = <<>>
  /\ rec.sends = <<>> /\ rec.nested = 0

C31Step ==
  \A p \in DOMAIN procs' :
    (/\ Len(procs') >= Len(procs)
     /\ Intermediate(procs'[p])
     /\ (p > Len(procs) \/ procs[p].path = "none")) =>
      /\ Quiet(procs'[p])
      /\ card' = card /\ card # 0 /\ creations[card].status = "card"
      /\ UNCHANGED <<cardCreationPromise, creations, send>>
      /\ \A q \in DOMAIN procs : q # p => procs'[q] = procs[q]

C31_IntermediateOnCardSilent ==
  /\ \A p \in DOMAIN procs : Intermediate(procs[p]) => Quiet(procs[p])
  /\ [][C31Step]_vars

C31_Witness ==
  /\ card # 0 /\ ~creations[card].inputingStarted
  /\ \E p \in DOMAIN procs :
       /\ Intermediate(procs[p]) /\ Quiet(procs[p])
       /\ procs[p].sawCard = card /\ procs[p].awaited = card
\* C32 (as claimed): the remote calls made for one card follow the protocol:
\* each finishAICard issues the composing status (if at all), then the content
\* push, then the terminal status, and over all the invocations working on
\* one card the composing status is issued at most once.
SeqRange(q) == {q[i] : i \in DOMAIN q}

IsPrefix(q, r) == Len(q) <= Len(r) /\ q = SubSeq(r, 1, Len(q))

Composing(c) ==
  {p \in DOMAIN procs : procs[p].fcard = c /\ "INPUTING" \in SeqRange(procs[p].fcalls)}

C32_CardProtocolOrder ==
  /\ \A p \in DOMAIN procs :
       \/ IsPrefix(procs[p].fcalls, <<"INPUTING", "streaming", "FINISHED">>)
       \/ IsPrefix(procs[p].fcalls, <<"streaming", "FINISHED">>)
  /\ \A c \in DOMAIN creations :
       /\ Cardinality(Composing(c)) <= 1
       /\ \A p \in DOMAIN procs :
            (procs[p].fcard = c /\ procs[p].pc = "putInputing") =>
              ~creations[c].inputingStarted
\* C33 (as claimed): finished is terminal for a card: among the invocations
\* working on one card at most one issues the terminal status, and once one
\* has issued it no other issues a content push or a status update for that
\* card.
Finishing(c) ==
  {p \in DOMAIN procs : procs[p].fcard = c /\ "FINISHED" \in SeqRange(procs[p].fcalls)}

C33_FinishedIsTerminal ==
  \A c \in DOMAIN creations :
    /\ Cardinality(Finishing(c)) <= 1
    /\ \A p \in Finishing(c), q \in DOMAIN procs :
         (q # p /\ procs[q].fcard = c) => procs[q].pc = "done"
\* C37 (as claimed): fragments on the plain path are sent in arrival order:
\* while an earlier-arrived fragment still has chunks to send, no chunk of a
\* later-arrived fragment has been sent.
AllChunksSent(rec) ==
  Len(rec.sends) = Len(chunkTextWithMode(rec.text, textChunkLimit))

C37_PlainFragmentsInOrder ==
  \A p, q \in DOMAIN procs :
    (/\ p < q
     /\ procs[p].kind = "deliver" /\ Trim(procs[p].text) # <<>>
     /\ procs[p].path \in {"none", "plain"}
     /\ procs[q].path = "plain" /\ procs[q].sends # <<>>) =>
      (procs[p].path = "plain" /\ AllChunksSent(procs[p]))
\* C34 (as claimed): the card path and the plain path exclude each other
\* within a turn: no fragment is being delivered by finishing a card while
\* another fragment of the turn has gone out through the plain path.
OnCardPath(rec) == rec.kind = "deliver" /\ rec.path = "card" /\ rec.fcard # 0

OnPlainPath(rec) == rec.kind = "deliver" /\ rec.path = "plain" /\ rec.sends # <<>>

C34_CardXorPlain ==
  \A p, q \in DOMAIN procs : ~(OnCardPath(procs[p]) /\ OnPlainPath(procs[q]))

\* C39 (as claimed): no card is left open: once the idle signal has fired,
\* with every delivery done and every creation settled, the dispatcher holds
\* no card.
TurnOver ==
  /\ env.idle /\ procs = <<>>
  /\ \A c \in DOMAIN creations : creations[c].status # "pending"

C39_NoCardLeftOpen == TurnOver => card = 0

\* C35 (as claimed): a reset command takes effect on the conversation: the
\* first turn dispatched after a handled reset command carries a session key
\* different from that of the last turn dispatched before the command.
Turn(i) == stream[i].kind = "text" /\ stream[i].dispatched

ResetHandled(j) == stream[j].kind = "reset" /\ stream[j].handled

C35_ResetChangesDispatchedKey ==
  \A i, j, k \in DOMAIN stream :
    (/\ i < j /\ j < k
     /\ Turn(i) /\ ResetHandled(j) /\ Turn(k)
     /\ \A m \in (i + 1) .. (k - 1) : ~Turn(m)) =>
      stream[k].sessionKey # stream[i].sessionKey

\* C36: nothing is retried within one sendToUser / sendToGroup call: card
\* creation is attempted at most once, the plain transport is entered at most
\* once, and every card call and plain post is issued at most once, whether
\* it failed or not.  (The access token is fetched once by the card attempt
\* and once more by the plain send that follows a failed attempt.)
Issued(call) == {i \in DOMAIN send.calls : send.calls[i] = call}

C36_NoRetry ==
  /\ send.cardAttempts <= 1
  /\ send.normalCalls <= 1
  /\ \A call \in RichCalls \cup PlainPosts \cup
                 {"PUT card/instances INPUTING", "getOapiAccessToken"} :
       Cardinality(Issued(call)) <= 1
  /\ Cardinality(Issued("getAccessToken")) <= send.cardAttempts + send.normalCalls

C36_Witness ==
  /\ send.pc = "done" /\ send.result.ok /\ send.result.usedAICard
  /\ \E i \in Issued("PUT card/streaming"), j \in Issued("PUT card/instances FINISHED") :
       send.acks[i] = "fail" /\ send.acks[j] = "fail"

\* C38: every result returned by sendToUser, sendToGroup or sendProactive is
\* well formed: usedAICard only with ok and a cardInstanceId, a
\* processQueryKey only with ok and without usedAICard, and a failure always
\* with an error string.
WellFormed(r) ==
  /\ r.usedAICard => (r.ok /\ r.cardInstanceId # "")
  /\ r.processQueryKey # "" => (r.ok /\ ~r.usedAICard)
  /\ ~r.ok => r.error # ""

C38_ResultWellFormed == send.pc = "done" => WellFormed(send.result)

C38_Witness ==
  /\ send.pc = "done" /\ send.api = "sendProactive"
  /\ send.rich = "failed" /\ send.normalCalls = 1
  /\ ~send.result.ok /\ send.result.error = "Unknown error"
  /\ \E i \in DOMAIN send.acks :
       send.calls[i] \in PlainPosts /\ send.acks[i] = "reject"

\* C40: a delivery whose handling fails (the payload does not parse, or the
\* dispatch throws) ends in the callback's or the handler's catch with one
\* error line; its message id was marked before the handling and, unless a
\* sweep evicted it, is still marked, so every later delivery of the id is
\* dropped without being handled.
Failed(dl) == dl.pc \in {"failed", "dispatchFailed"}

C40_FailedStaysMarked ==
  \A i \in DOMAIN stream :
    LET dl == stream[i]
    IN  /\ Failed(dl) => dl.logged = 1
        /\ (dl.kind = "bad" /\ dl.pc # "dropped") => (dl.pc = "failed" /\ ~dl.handled)
        /\ (Failed(dl) /\ dl.id # EmptyId /\ ~dl.earlier) => dl.id \in ghost.marked
        /\ (Failed(dl) /\ dl.id # EmptyId /\ dl.id \notin ghost.evicted) =>
             /\ isMessageProcessed(processedMessages, dl.id)
             /\ \A j \in DOMAIN stream :
                  (i < j /\ stream[j].id = dl.id) =>
                    (stream[j].pc = "dropped" /\ ~stream[j].handled)

C40_Witness ==
  \E i, j \in DOMAIN stream :
    /\ i < j /\ stream[i].id = 2 /\ stream[j].id = 2
    /\ stream[i].kind = "bad" /\ stream[i].pc = "failed"
    /\ stream[j].kind = "text" /\ stream[j].pc = "dropped"
====
